---- MODULE Spec2Model ----
(***************************************************************************)
(* Model of the almora PEG matching engine: the location arithmetic, the   *)
(* ring buffer, the in-memory and the chunked (file) character readers,    *)
(* and the matcher combinators of parser_lib/lexer.                        *)
(***************************************************************************)
EXTENDS Integers, Sequences, FiniteSets, TLC

VARIABLES input, grammar, sreader, freader, last, buffer, queued

vars == <<input, grammar, sreader, freader, last, buffer, queued>>

(***************************************************************************)
(* Bounds of the model.                                                    *)
(***************************************************************************)
\* longest input text, in characters
MaxLen == 3
\* capacity of the ring buffer of the chunked reader (buffer_size)
BufferSize == 3

(***************************************************************************)
(* Characters.  A char is a string naming it; e_acute stands for U+00E9,   *)
(* whose UTF-8 encoding takes two bytes.                                   *)
(***************************************************************************)
NewLine == "\n"
WideChar == "e_acute"
Alphabet == {"a", NewLine, WideChar}

\* a byte 0xFF in a file: no UTF-8 text holds it, and no window that starts
\* with it decodes
InvalidByte == "xff"

\* the digits and the operators of the arithmetic grammar, with their
\* scalar values
AsciiCode ==
    [c \in {"0", "1", "2", "3", "4", "5", "6", "7", "8", "9", "+", "-", "*", "/", "%"} |->
        CASE c = "%" -> 37 [] c = "*" -> 42 [] c = "+" -> 43 [] c = "-" -> 45
          [] c = "/" -> 47 [] c = "0" -> 48 [] c = "1" -> 49 [] c = "2" -> 50
          [] c = "3" -> 51 [] c = "4" -> 52 [] c = "5" -> 53 [] c = "6" -> 54
          [] c = "7" -> 55 [] c = "8" -> 56 [] c = "9" -> 57]

\* the scalar value of a char, which is what < and > on chars compare
CodePoint(c) ==
    CASE c = NewLine  -> 10
      [] c = "a"      -> 97
      [] c = WideChar -> 233
      [] c \in DOMAIN AsciiCode -> AsciiCode[c]
      [] OTHER        -> 0

\* the UTF-8 encoding of a char
Utf8Encode(c) ==
    IF c = WideChar THEN <<195, 169>> ELSE <<CodePoint(c)>>

\* str::len(): the length of a string in bytes
RECURSIVE StrLen(_)
StrLen(s) ==
    IF s = <<>> THEN 0 ELSE Len(Utf8Encode(Head(s))) + StrLen(Tail(s))

\* the bytes of the file holding the text s
RECURSIVE FileBytes(_)
FileBytes(s) ==
    IF s = <<>> THEN <<>>
    ELSE IF Len(s) = 1
    THEN (IF s[1] = InvalidByte THEN <<255>> ELSE Utf8Encode(s[1]))
    ELSE FileBytes(SubSeq(s, 1, Len(s) \div 2))
         \o FileBytes(SubSeq(s, Len(s) \div 2 + 1, Len(s)))

\* std::str::from_utf8 on a byte sequence made of the bytes above
RECURSIVE Utf8Valid(_)
Utf8Valid(bs) ==
    IF bs = <<>> THEN TRUE
    ELSE IF Head(bs) < 128 THEN Utf8Valid(Tail(bs))
    ELSE IF Head(bs) = 195 /\ Len(bs) >= 2 /\ bs[2] = 169
         THEN Utf8Valid(Tail(Tail(bs)))
    ELSE FALSE

\* Option<T>
None == <<>>
Some(v) == <<v>>

\* `let t = v; F(t)`: v is evaluated once, then F on its value
With(v, F(_)) == CHOOSE y \in {F(t) : t \in {v}} : TRUE

\* [u8; 4]::try_into_char: the first char of the window when all four
\* bytes form valid UTF-8, an error (None) otherwise
try_into_char(char_buf) ==
    IF ~Utf8Valid(char_buf) THEN None
    ELSE IF char_buf[1] = 195 THEN Some(WideChar)
    ELSE IF char_buf[1] = 10 THEN Some(NewLine)
    ELSE IF char_buf[1] = 97 THEN Some("a")
    ELSE IF \E c \in DOMAIN AsciiCode : AsciiCode[c] = char_buf[1]
    THEN Some(CHOOSE c \in DOMAIN AsciiCode : AsciiCode[c] = char_buf[1])
    ELSE Some("nul")

(***************************************************************************)
(* Ring buffer (utils/char_buffer).                                        *)
(***************************************************************************)
\* CharBufferError::NotEnoughSpace(c)
NotEnoughSpace(c) == [kind |-> "NotEnoughSpace", c |-> c]

RingBuffer_new(capacity) ==
    [buf |-> [i \in 0..(capacity - 1) |-> "nul"],
     read_pos |-> 0, write_pos |-> 0, size |-> 0]

RingBuffer_capacity(b) == Cardinality(DOMAIN b.buf)

\* push storing the element on a full buffer too, over the oldest one
RingBuffer_push_over(b, c) ==
    IF b.size = RingBuffer_capacity(b)
    THEN [b |-> [b EXCEPT !.buf[b.write_pos] = c],
          ok |-> FALSE, err |-> NotEnoughSpace(c)]
    ELSE [b |-> [b EXCEPT !.buf[b.write_pos] = c,
                          !.write_pos = IF b.write_pos + 1 = RingBuffer_capacity(b)
                                        THEN 0 ELSE b.write_pos + 1,
                          !.size = b.size + 1],
          ok |-> TRUE]

RingBuffer_push(b, c) ==
    IF b.size = RingBuffer_capacity(b)
    THEN [b |-> b, ok |-> FALSE, err |-> NotEnoughSpace(c)]
    ELSE [b |-> [b EXCEPT !.buf[b.write_pos] = c,
                          !.write_pos = IF b.write_pos + 1 = RingBuffer_capacity(b)
                                        THEN 0 ELSE b.write_pos + 1,
                          !.size = b.size + 1],
          ok |-> TRUE]

RingBuffer_pop(b) ==
    IF b.size = 0
    THEN [b |-> b, val |-> None]
    ELSE [b |-> [b EXCEPT !.read_pos = IF b.read_pos + 1 = RingBuffer_capacity(b)
                                       THEN 0 ELSE b.read_pos + 1,
                          !.size = b.size - 1],
          val |-> Some(b.buf[b.read_pos])]

RingBuffer_peek(b) ==
    IF b.size = 0 THEN None ELSE Some(b.buf[b.read_pos])

\* peek_nth counting from the element pushed last
RingBuffer_peek_nth_newest(b, n) ==
    IF b.size = 0 THEN None
    ELSE IF n >= b.size THEN None
    ELSE Some(b.buf[(b.read_pos + b.size - 1 - n) % RingBuffer_capacity(b)])

RingBuffer_peek_nth(b, n) ==
    IF b.size = 0 THEN None
    ELSE IF n >= b.size THEN None
    ELSE Some(b.buf[(b.read_pos + n) % RingBuffer_capacity(b)])

(***************************************************************************)
(* Results.                                                                *)
(***************************************************************************)
\* Result<T, ParserError>
Ok(v) == [ok |-> TRUE, val |-> v]
Err(e) == [ok |-> FALSE, err |-> e]

NoLookBehind(pos) == [kind |-> "NoLookBehind", pos |-> pos]
LookAheadBufferOverflow(pos) == [kind |-> "LookAheadBufferOverflow", pos |-> pos]

Min(x, y) == IF x < y THEN x ELSE y

(***************************************************************************)
(* The chunked reader (parser_lib/char_reader/file_char_reader.rs).  The   *)
(* file holds the UTF-8 encoding of the input; file_pos is the position of *)
(* the file handle, in bytes.                                              *)
(***************************************************************************)
file == FileBytes(input)

FileCharReader_new(buffer_size) ==
    [kind |-> "file",
     buffer |-> RingBuffer_new(buffer_size),
     nb_read_from_buffer |-> 0,
     nb_read_from_file |-> 0,
     file_pos |-> 0]

\* the body of `for i in 0..bytes_read` of load_chars, on the bytes read
RECURSIVE LoadBytes(_, _)
LoadBytes(st, bytes) ==
    IF bytes = <<>> \/ st.panic THEN st
    ELSE IF st.char_i >= 4
    THEN [st EXCEPT !.panic = TRUE]
    ELSE With([st.char_buf EXCEPT ![st.char_i + 1] = Head(bytes)], LAMBDA char_buf :
         With(try_into_char(char_buf), LAMBDA c :
            IF c # None
            THEN With(RingBuffer_push(st.r.buffer, c[1]), LAMBDA pushed :
                    IF ~pushed.ok \/ st.chars_to_read = 0
                    THEN [st EXCEPT !.panic = TRUE]
                    ELSE LoadBytes(
                           [st EXCEPT !.r.buffer = pushed.b,
                                      !.r.nb_read_from_file = @ + 1,
                                      !.char_i = 0,
                                      !.char_buf = <<0, 0, 0, 0>>,
                                      !.chars_to_read = @ - 1],
                           Tail(bytes)))
            ELSE LoadBytes([st EXCEPT !.char_buf = char_buf,
                                      !.char_i = @ + 1],
                           Tail(bytes))))

\* the `while chars_to_read > 0 && bytes_read > 0` loop of load_chars
RECURSIVE LoadLoop(_)
LoadLoop(st) ==
    With(Min(st.chars_to_read, Len(file) - st.r.file_pos), LAMBDA bytes_read :
        IF st.chars_to_read = 0 \/ st.panic \/ bytes_read = 0
        THEN st
        ELSE With(LoadBytes([st EXCEPT !.r.file_pos = @ + bytes_read],
                            SubSeq(file, st.r.file_pos + 1,
                                   st.r.file_pos + bytes_read)),
                  LAMBDA st2 : LoadLoop(st2)))

load_chars(r, n) ==
    IF r.buffer.size + n > RingBuffer_capacity(r.buffer)
    THEN [r |-> r, loaded |-> 0, panic |-> FALSE]
    ELSE With(LoadLoop([r |-> r, char_buf |-> <<0, 0, 0, 0>>, char_i |-> 0,
                        chars_to_read |-> n, panic |-> FALSE]),
              LAMBDA st : [r |-> st.r, loaded |-> n - st.chars_to_read,
                           panic |-> st.panic])

load_until(r, index) ==
    IF index >= r.nb_read_from_file
    THEN With(load_chars(r, index - r.nb_read_from_file + 1), LAMBDA l :
            [r |-> l.r, val |-> ~(index >= l.r.nb_read_from_file)])
    ELSE [r |-> r, val |-> TRUE]

FileCharReader_peek(r) ==
    With(load_until(r, r.nb_read_from_buffer), LAMBDA l :
        [r |-> l.r, val |-> RingBuffer_peek(l.r.buffer)])

FileCharReader_peek_nth(r, n) ==
    With(load_until(r, r.nb_read_from_buffer + n), LAMBDA l :
        [r |-> l.r, val |-> RingBuffer_peek_nth(l.r.buffer, n)])

FileCharReader_consume(r) ==
    With(load_until(r, r.nb_read_from_buffer), LAMBDA l :
    With(RingBuffer_pop(l.r.buffer), LAMBDA res :
        [r |-> [l.r EXCEPT !.buffer = res.b,
                           !.nb_read_from_buffer =
                               IF res.val # None THEN @ + 1 ELSE @],
         val |-> res.val]))

\* `for _ in 0..n { self.buffer.pop(); }`
RECURSIVE PopN(_, _)
PopN(b, n) == IF n = 0 THEN b ELSE PopN(RingBuffer_pop(b).b, n - 1)

FileCharReader_consume_nth(r, n) ==
    With(load_until(r, r.nb_read_from_buffer + n), LAMBDA l :
    With(RingBuffer_pop(PopN(l.r.buffer, n)), LAMBDA res :
        [r |-> [l.r EXCEPT !.buffer = res.b,
                           !.nb_read_from_buffer =
                               IF res.val # None THEN @ + n + 1 ELSE @],
         val |-> res.val]))

FileCharReader_is_eof(r) ==
    With(load_until(r, r.nb_read_from_buffer), LAMBDA l :
        [r |-> l.r, val |-> (l.val = FALSE)])

\* the `for str_c in s.chars()` loop of match_str, i the relative position
RECURSIVE FileCharReader_compare(_, _, _)
FileCharReader_compare(r, i, s) ==
    IF s = <<>> THEN [r |-> r, val |-> Ok(TRUE)]
    ELSE With(FileCharReader_peek_nth(r, i), LAMBDA p :
            IF p.val = None \/ p.val[1] # Head(s)
            THEN [r |-> p.r, val |-> Ok(FALSE)]
            ELSE FileCharReader_compare(p.r, i + 1, Tail(s)))

\* match_str refusing a string only when it ends past the capacity
FileCharReader_match_str_late(r, pos, s) ==
    IF pos < r.nb_read_from_buffer
    THEN [r |-> r, val |-> Err(NoLookBehind(pos))]
    ELSE LET relative_pos == pos - r.nb_read_from_buffer
         IN  IF relative_pos + StrLen(s) > RingBuffer_capacity(r.buffer)
             THEN [r |-> r,
                   val |-> Err(LookAheadBufferOverflow(relative_pos + StrLen(s)))]
             ELSE FileCharReader_compare(r, relative_pos, s)

FileCharReader_match_str(r, pos, s) ==
    IF pos < r.nb_read_from_buffer
    THEN [r |-> r, val |-> Err(NoLookBehind(pos))]
    ELSE LET relative_pos == pos - r.nb_read_from_buffer
         IN  IF relative_pos + StrLen(s) >= RingBuffer_capacity(r.buffer)
             THEN [r |-> r,
                   val |-> Err(LookAheadBufferOverflow(relative_pos + StrLen(s)))]
             ELSE FileCharReader_compare(r, relative_pos, s)

\* the `while let Some(c) = self.peek_nth(i)` loop of match_range
RECURSIVE FileCharReader_count(_, _, _, _, _, _)
FileCharReader_count(r, i, start, end, max, matched) ==
    With(FileCharReader_peek_nth(r, i), LAMBDA p :
        IF p.val = None
        THEN [r |-> p.r, val |-> Ok(matched)]
        ELSE IF CodePoint(p.val[1]) < CodePoint(start)
                \/ CodePoint(p.val[1]) > CodePoint(end)
        THEN [r |-> p.r, val |-> Ok(matched)]
        ELSE IF max # 0 /\ matched >= max
        THEN [r |-> p.r, val |-> Ok(matched)]
        ELSE FileCharReader_count(p.r, i + 1, start, end, max, matched + 1))

FileCharReader_match_range(r, pos, start, end, max) ==
    IF pos < r.nb_read_from_buffer
    THEN [r |-> r, val |-> Err(NoLookBehind(pos))]
    ELSE FileCharReader_count(r, pos - r.nb_read_from_buffer, start, end, max, 0)

(***************************************************************************)
(* The in-memory reader (parser_lib/char_reader/string_char_reader.rs).    *)
(* Its string is the input.                                                *)
(***************************************************************************)
StringCharReader_new ==
    [kind |-> "string", cursor_index |-> 0]

\* self.string.chars().nth(k)
chars_nth(k) ==
    IF k < Len(input) THEN Some(input[k + 1]) ELSE None

StringCharReader_peek(r) ==
    [r |-> r, val |-> chars_nth(r.cursor_index)]

StringCharReader_peek_nth(r, n) ==
    [r |-> r, val |-> chars_nth(r.cursor_index + n)]

StringCharReader_consume(r) ==
    With(StringCharReader_peek(r).val, LAMBDA c :
        IF c = None THEN [r |-> r, val |-> None]
        ELSE [r |-> [r EXCEPT !.cursor_index = @ + 1], val |-> c])

StringCharReader_consume_nth(r, n) ==
    With(StringCharReader_peek_nth(r, n).val, LAMBDA c :
        IF c = None THEN [r |-> r, val |-> None]
        ELSE [r |-> [r EXCEPT !.cursor_index = @ + n + 1], val |-> c])

StringCharReader_is_eof(r) ==
    [r |-> r, val |-> (chars_nth(r.cursor_index) = None)]

RECURSIVE StringCharReader_compare(_, _, _)
\* the comparison taking the end of the input for a match
StringCharReader_compare_prefix(r, i, s) ==
    IF s = <<>> THEN [r |-> r, val |-> Ok(TRUE)]
    ELSE With(StringCharReader_peek_nth(r, i), LAMBDA p :
            IF p.val = None THEN [r |-> p.r, val |-> Ok(TRUE)]
            ELSE IF p.val[1] # Head(s) THEN [r |-> p.r, val |-> Ok(FALSE)]
            ELSE StringCharReader_compare(p.r, i + 1, Tail(s)))

StringCharReader_compare(r, i, s) ==
    IF s = <<>> THEN [r |-> r, val |-> Ok(TRUE)]
    ELSE With(StringCharReader_peek_nth(r, i), LAMBDA p :
            IF p.val = None \/ p.val[1] # Head(s)
            THEN [r |-> p.r, val |-> Ok(FALSE)]
            ELSE StringCharReader_compare(p.r, i + 1, Tail(s)))

\* match_str moving the cursor past the string it found
StringCharReader_match_str_consuming(r, pos, s) ==
    IF pos < r.cursor_index
    THEN [r |-> r, val |-> Err(NoLookBehind(pos))]
    ELSE With(StringCharReader_compare(r, pos - r.cursor_index, s), LAMBDA m :
            IF m.val.val THEN [m EXCEPT !.r.cursor_index = pos + Len(s)] ELSE m)

StringCharReader_match_str(r, pos, s) ==
    IF pos < r.cursor_index
    THEN [r |-> r, val |-> Err(NoLookBehind(pos))]
    ELSE StringCharReader_compare(r, pos - r.cursor_index, s)

RECURSIVE StringCharReader_count(_, _, _, _, _, _)
StringCharReader_count(r, i, start, end, max, matched) ==
    With(StringCharReader_peek_nth(r, i), LAMBDA p :
        IF p.val = None
        THEN [r |-> p.r, val |-> Ok(matched)]
        ELSE IF CodePoint(p.val[1]) < CodePoint(start)
                \/ CodePoint(p.val[1]) > CodePoint(end)
        THEN [r |-> p.r, val |-> Ok(matched)]
        ELSE IF max # 0 /\ matched >= max
        THEN [r |-> p.r, val |-> Ok(matched)]
        ELSE StringCharReader_count(p.r, i + 1, start, end, max, matched + 1))

StringCharReader_match_range(r, pos, start, end, max) ==
    IF pos < r.cursor_index
    THEN [r |-> r, val |-> Err(NoLookBehind(pos))]
    ELSE StringCharReader_count(r, pos - r.cursor_index, start, end, max, 0)

(***************************************************************************)
(* The Stream and MatchStr traits: a call on a reader R goes to the        *)
(* implementation of its type.                                             *)
(***************************************************************************)
Stream_peek(r) ==
    IF r.kind = "string" THEN StringCharReader_peek(r)
    ELSE FileCharReader_peek(r)

Stream_peek_nth(r, n) ==
    IF r.kind = "string" THEN StringCharReader_peek_nth(r, n)
    ELSE FileCharReader_peek_nth(r, n)

Stream_consume(r) ==
    IF r.kind = "string" THEN StringCharReader_consume(r)
    ELSE FileCharReader_consume(r)

Stream_consume_nth(r, n) ==
    IF r.kind = "string" THEN StringCharReader_consume_nth(r, n)
    ELSE FileCharReader_consume_nth(r, n)

Stream_is_eof(r) ==
    IF r.kind = "string" THEN StringCharReader_is_eof(r)
    ELSE FileCharReader_is_eof(r)

match_str(r, pos, s) ==
    IF r.kind = "string" THEN StringCharReader_match_str(r, pos, s)
    ELSE FileCharReader_match_str(r, pos, s)

match_range(r, pos, start, end, max) ==
    IF r.kind = "string" THEN StringCharReader_match_range(r, pos, start, end, max)
    ELSE FileCharReader_match_range(r, pos, start, end, max)

\* the number of elements the reader has consumed (its cursor)
Cursor(r) ==
    IF r.kind = "string" THEN r.cursor_index ELSE r.nb_read_from_buffer

\* MatchStr::is_end_of_input and MatchStr::is_newline are declared by the
\* trait; they look at the element at the absolute position pos under the
\* look-behind and look-ahead conditions of the other position queries.
PositionQuery(r, pos) ==
    IF pos < Cursor(r)
    THEN [r |-> r, val |-> Err(NoLookBehind(pos))]
    ELSE IF r.kind = "file" /\ pos - Cursor(r) >= RingBuffer_capacity(r.buffer)
    THEN [r |-> r, val |-> Err(LookAheadBufferOverflow(pos))]
    ELSE With(Stream_peek_nth(r, pos - Cursor(r)), LAMBDA p :
            [r |-> p.r, val |-> Ok(p.val)])

is_end_of_input(r, pos) ==
    With(PositionQuery(r, pos), LAMBDA q :
        IF q.val.ok THEN [r |-> q.r, val |-> Ok(q.val.val = None)] ELSE q)

is_newline(r, pos) ==
    With(PositionQuery(r, pos), LAMBDA q :
        IF q.val.ok THEN [r |-> q.r, val |-> Ok(q.val.val = Some(NewLine))] ELSE q)

(***************************************************************************)
(* Location, Span, ParseResult (parser_lib/types).                         *)
(***************************************************************************)
Location_new(line, column, index) ==
    [line |-> line, column |-> column, index |-> index]

beginning == Location_new(1, 1, 0)

add_line(loc) ==
    Location_new(loc.line + 1, 1, loc.index + 1)

increment_for(loc, c) ==
    IF c = NewLine
    THEN Location_new(loc.line + 1, 1, loc.index + 1)
    ELSE Location_new(loc.line, loc.column + 1, loc.index + 1)

\* add_delta keeping the column of the line it leaves
add_delta_same_line(loc, delta_lines, delta_columns, delta_index) ==
    Location_new(loc.line + delta_lines,
                 loc.column + delta_columns,
                 loc.index + delta_index)

add_delta(loc, delta_lines, delta_columns, delta_index) ==
    Location_new(loc.line + delta_lines,
                 (IF delta_lines > 0 THEN 1 ELSE loc.column) + delta_columns,
                 loc.index + delta_index)

\* impl Add<usize> for Location
add(loc, nb) ==
    Location_new(loc.line, loc.column + nb, loc.index + nb)

Span_new(start, end) == [start |-> start, end |-> end]

\* the outcomes of a test: Ok(Some(info)), Ok(None), Err(e); and the two ways
\* in which a test returns nothing: an arithmetic overflow, and a loop that
\* repeats the same iteration for ever
Matched(span, len) == [res |-> "Matched", span |-> span, len |-> len]
NoMatch == [res |-> "NoMatch"]
Error(e) == [res |-> "Error", err |-> e]
Overflow == [res |-> "Overflow"]
Diverge == [res |-> "Diverge"]

Returns(out) == out.res \in {"Matched", "NoMatch", "Error"}

ParseResult_new(span, len) == Matched(span, len)

matches(start, end) ==
    IF end.index < start.index THEN Overflow
    ELSE Matched(Span_new(start, end), end.index - start.index)

no_match == NoMatch

\* the empty span placed at the beginning of the input
empty_at_beginning(start) == Matched(Span_new(beginning, beginning), 0)

empty(start) == Matched(Span_new(start, start), 0)

(***************************************************************************)
(* Matchers (parser_lib/lexer).  A matcher is a record whose type field    *)
(* names its struct.                                                       *)
(***************************************************************************)
\* the `for c in value.chars()` loop of StrMatcher::new
RECURSIVE Deltas(_, _, _)
Deltas(value, delta_lines, delta_columns) ==
    IF value = <<>>
    THEN [delta_lines |-> delta_lines, delta_columns |-> delta_columns]
    ELSE IF Head(value) = NewLine
    THEN Deltas(Tail(value), delta_lines + 1, 0)
    ELSE Deltas(Tail(value), delta_lines, delta_columns + 1)

StrMatcher_new(value) ==
    [type |-> "Str", value |-> value,
     delta_lines |-> Deltas(value, 0, 0).delta_lines,
     delta_columns |-> Deltas(value, 0, 0).delta_columns]

RangeMatcher_new(start, end) ==
    [type |-> "Range", start |-> start, end |-> end, min |-> 1, max |-> 1]

at_least_n(start, end, min) ==
    [type |-> "Range", start |-> start, end |-> end, min |-> min, max |-> 0]

repeat_between(start, end, min, max) ==
    [type |-> "Range", start |-> start, end |-> end, min |-> min, max |-> max]

SequentialMatcher_new(children) == [type |-> "Seq", children |-> children]
ChoiceMatcher_new(children) == [type |-> "Choice", children |-> children]
OptionalMatcher_new(value) == [type |-> "Optional", value |-> value]
NotMatcher_new(value) == [type |-> "Not", value |-> value]
TokenMatcher_new(value) == [type |-> "Token", value |-> value]
RepetitionMatcher_new(value, min) == [type |-> "Repetition", value |-> value, min |-> min]
UntilMatcher_new(until, min) == [type |-> "Until", until |-> until, min |-> min]

\* the largest value of the u8 counter of RepetitionMatcher::test
U8Max == 255

StrMatcher_test(m, loc, r) ==
    With(match_str(r, loc.index, m.value), LAMBDA success :
        IF ~success.val.ok
        THEN [out |-> Error(success.val.err), r |-> success.r]
        ELSE IF success.val.val
        THEN [out |-> ParseResult_new(
                        Span_new(loc, add_delta(loc, m.delta_lines, m.delta_columns,
                                                StrLen(m.value))),
                        StrLen(m.value)),
              r |-> success.r]
        ELSE [out |-> no_match, r |-> success.r])

RangeMatcher_test(m, loc, r) ==
    With(match_range(r, loc.index, m.start, m.end, m.max), LAMBDA nb :
        IF ~nb.val.ok
        THEN [out |-> Error(nb.val.err), r |-> nb.r]
        ELSE IF nb.val.val >= m.min
        THEN [out |-> matches(loc, add(loc, nb.val.val)), r |-> nb.r]
        ELSE [out |-> no_match, r |-> nb.r])

RECURSIVE test(_, _, _)
RECURSIVE SequentialMatcher_loop(_, _, _, _)
RECURSIVE ChoiceMatcher_loop(_, _, _)
RECURSIVE RepetitionMatcher_loop(_, _, _, _, _)
RECURSIVE UntilMatcher_loop(_, _, _, _, _)

\* the `for child in &self.children` loop of SequentialMatcher::test
SequentialMatcher_loop(children, loc, end_loc, r) ==
    IF children = <<>> THEN [out |-> matches(loc, end_loc), r |-> r]
    ELSE With(test(Head(children), end_loc, r), LAMBDA t :
            IF t.out.res = "Matched"
            THEN SequentialMatcher_loop(Tail(children), loc, t.out.span.end, t.r)
            ELSE IF t.out.res = "NoMatch"
            THEN [out |-> no_match, r |-> t.r]
            ELSE t)

\* a Sequence returning the empty span when one of its children does not
\* match
SequentialMatcher_test_lenient(m, loc, r) ==
    With(SequentialMatcher_loop(m.children, loc, loc, r), LAMBDA t :
        IF t.out.res = "NoMatch" THEN [out |-> empty(loc), r |-> t.r] ELSE t)

SequentialMatcher_test(m, loc, r) ==
    SequentialMatcher_loop(m.children, loc, loc, r)

\* the `for child in &self.children` loop of ChoiceMatcher::test
ChoiceMatcher_loop(children, loc, r) ==
    IF children = <<>> THEN [out |-> no_match, r |-> r]
    ELSE With(test(Head(children), loc, r), LAMBDA t :
            IF t.out.res = "Matched"
            THEN [out |-> matches(loc, t.out.span.end), r |-> t.r]
            ELSE IF t.out.res = "NoMatch"
            THEN ChoiceMatcher_loop(Tail(children), loc, t.r)
            ELSE t)

\* Choice preferring the alternative declared last
ChoiceMatcher_test_last(m, loc, r) ==
    ChoiceMatcher_loop([i \in 1..Len(m.children) |->
                          m.children[Len(m.children) + 1 - i]], loc, r)

ChoiceMatcher_test(m, loc, r) ==
    ChoiceMatcher_loop(m.children, loc, r)

\* Optional handing on whatever its inner matcher returns
OptionalMatcher_test_strict(m, loc, r) ==
    test(m.value, loc, r)

OptionalMatcher_test(m, loc, r) ==
    With(test(m.value, loc, r), LAMBDA t :
        IF t.out.res = "Matched" THEN t
        ELSE IF Returns(t.out) THEN [out |-> empty(loc), r |-> t.r]
        ELSE t)

NotMatcher_test(m, loc, r) ==
    With(test(m.value, loc, r), LAMBDA t :
        IF t.out.res = "Matched" THEN [out |-> no_match, r |-> t.r]
        ELSE IF t.out.res = "NoMatch" THEN [out |-> empty(loc), r |-> t.r]
        ELSE t)

TokenMatcher_test(m, loc, r) ==
    With(test(m.value, loc, r), LAMBDA t :
        IF t.out.res = "Matched"
        THEN IF t.out.span.end.index = 0
             THEN [out |-> Overflow, r |-> t.r]
             ELSE [out |-> t.out,
                   r |-> Stream_consume_nth(t.r, t.out.span.end.index - 1).r]
        ELSE IF t.out.res = "NoMatch" THEN [out |-> empty(loc), r |-> t.r]
        ELSE t)

\* the `while let Ok(Some(res)) = self.value.test(&end_loc, reader)` loop of
\* RepetitionMatcher::test and the comparison with min that follows it
RepetitionMatcher_loop(m, loc, end_loc, r, count) ==
    With(test(m.value, end_loc, r), LAMBDA t :
        IF t.out.res = "Matched"
        THEN IF count = U8Max
             THEN [out |-> Overflow, r |-> t.r]
             ELSE IF t.out.span.end = end_loc /\ t.r = r
             THEN \* every later iteration is this one again
                  [out |-> Diverge, r |-> t.r]
             ELSE RepetitionMatcher_loop(m, loc, t.out.span.end, t.r, count + 1)
        ELSE IF Returns(t.out)
        THEN [out |-> IF count >= m.min THEN matches(loc, end_loc) ELSE no_match,
              r |-> t.r]
        ELSE t)

\* a Repetition that stops after the first iteration
RepetitionMatcher_test_once(m, loc, r) ==
    With(test(m.value, loc, r), LAMBDA t :
        IF t.out.res = "Matched"
        THEN [out |-> IF 1 >= m.min THEN matches(loc, t.out.span.end) ELSE no_match,
              r |-> t.r]
        ELSE IF Returns(t.out)
        THEN [out |-> IF 0 >= m.min THEN matches(loc, loc) ELSE no_match, r |-> t.r]
        ELSE t)

RepetitionMatcher_test(m, loc, r) ==
    RepetitionMatcher_loop(m, loc, loc, r, 0)

\* `if count >= self.min { matches(*loc, end_loc) } else { no_match() }`
AtLeastMin(m, loc, end_loc, r, count) ==
    [out |-> IF count >= m.min THEN matches(loc, end_loc) ELSE no_match,
     r |-> r]

\* the `while let Ok(None) = self.until.test(&end_loc, reader)` loop of
\* UntilMatcher::test and the comparison with min that follows it.  The
\* value of end_loc.add_line() is dropped, so end_loc stays where it is on
\* a newline.
UntilMatcher_loop(m, loc, end_loc, r, count) ==
    With(test(m.until, end_loc, r), LAMBDA t :
        IF t.out.res = "NoMatch"
        THEN With(is_end_of_input(t.r, end_loc.index), LAMBDA eof :
                IF ~eof.val.ok THEN [out |-> Error(eof.val.err), r |-> eof.r]
                ELSE IF eof.val.val THEN AtLeastMin(m, loc, end_loc, eof.r, count)
                ELSE With(is_newline(eof.r, end_loc.index), LAMBDA nl :
                        IF ~nl.val.ok THEN [out |-> Error(nl.val.err), r |-> nl.r]
                        ELSE IF nl.val.val
                        THEN IF nl.r = r
                             THEN [out |-> Diverge, r |-> nl.r]
                             ELSE UntilMatcher_loop(m, loc, end_loc, nl.r, count + 1)
                        ELSE UntilMatcher_loop(m, loc, add(end_loc, 1), nl.r,
                                               count + 1)))
        ELSE IF Returns(t.out) THEN AtLeastMin(m, loc, end_loc, t.r, count)
        ELSE t)

UntilMatcher_test(m, loc, r) ==
    UntilMatcher_loop(m, loc, loc, r, 0)

\* MatchToken::test on Rc<dyn MatchToken<R>>
test(m, loc, r) ==
    CASE m.type = "Str"        -> StrMatcher_test(m, loc, r)
      [] m.type = "Range"      -> RangeMatcher_test(m, loc, r)
      [] m.type = "Seq"        -> SequentialMatcher_test(m, loc, r)
      [] m.type = "Choice"     -> ChoiceMatcher_test(m, loc, r)
      [] m.type = "Optional"   -> OptionalMatcher_test(m, loc, r)
      [] m.type = "Not"        -> NotMatcher_test(m, loc, r)
      [] m.type = "Token"      -> TokenMatcher_test(m, loc, r)
      [] m.type = "Repetition" -> RepetitionMatcher_test(m, loc, r)
      [] m.type = "Until"      -> UntilMatcher_test(m, loc, r)

(***************************************************************************)
(* Grammar (parser_lib/types/grammar.rs).                                  *)
(***************************************************************************)
NoGrammarDefined == [kind |-> "NoGrammarDefined"]

GrammarBuilder_new == [root |-> None]

save_root(g, root) == [g EXCEPT !.root = Some(root)]

Grammar_test(g, loc, r) ==
    IF g.root = None
    THEN [out |-> Error(NoGrammarDefined), r |-> r]
    ELSE test(g.root[1], loc, r)

(***************************************************************************)
(* The state machine.  A parse owns an input, a grammar built once, and a  *)
(* reader; the in-memory reader and the chunked reader are driven over the *)
(* same input by the same calls.  last records the latest call: its        *)
(* arguments, both readers as they were before it, and what each reader   *)
(* returned, until the caller takes the result.                            *)
(***************************************************************************)
RECURSIVE SeqsUpTo(_, _)
SeqsUpTo(S, n) ==
    IF n = 0 THEN {<<>>}
    ELSE SeqsUpTo(S, n - 1) \cup
         {Append(q, c) : q \in SeqsUpTo(S, n - 1), c \in S}

Inputs == SeqsUpTo(Alphabet, MaxLen)

\* literals handed to match_str and to StrMatcher::new
Literals == {<<>>, <<"a">>, <<"a", "a">>, <<NewLine>>, <<WideChar>>, <<"a", WideChar>>}

\* [start, end] ranges handed to match_range and to the range matchers
Ranges == {<<"a", "a">>, <<"a", WideChar>>, <<NewLine, "a">>}

\* the max handed to match_range: 0 is no maximum
Maxes == {0, 2}

\* the location of the element at position k of the input, counted from the
\* beginning of the input with increment_for
RECURSIVE LocAt(_)
LocAt(k) ==
    IF k = 0 THEN beginning ELSE increment_for(LocAt(k - 1), input[k])

Call(op, args, s, f) ==
    [op |-> op, args |-> args, pre_s |-> Cursor(sreader), pre_f |-> Cursor(freader),
     before_s |-> sreader, before_f |-> freader, s |-> s.val, f |-> f.val]

\* no call is in progress
Idle ==
    [op |-> "idle", args |-> <<>>, pre_s |-> 0, pre_f |-> 0,
     before_s |-> None, before_f |-> None, s |-> None, f |-> None]

\* a test that overflowed or loops for ever returns nothing: the parse ends;
\* so does a refill that panicked; a loop in progress has not returned yet
Alive ==
    /\ last.op = "test" => Returns(last.s) /\ Returns(last.f)
    /\ last.op = "load_chars" => ~last.panic
    /\ last.op # "repetition"

InitWith(inputs, grammars, capacities) ==
    /\ input \in inputs
    /\ grammar \in grammars
    /\ sreader = StringCharReader_new
    /\ freader \in {FileCharReader_new(buffer_size) : buffer_size \in capacities}
    /\ last = Idle
    /\ buffer = RingBuffer_new(BufferSize)
    /\ queued = <<>>

PeekOp ==
    LET s == Stream_peek(sreader)
        f == Stream_peek(freader)
    IN  /\ last.op = "idle"
        /\ sreader' = s.r
        /\ freader' = f.r
        /\ last' = Call("peek", <<>>, s, f)
        /\ UNCHANGED <<input, grammar, buffer, queued>>

PeekNthOp ==
    \E n \in 0..(BufferSize - 1) :
        LET s == Stream_peek_nth(sreader, n)
            f == Stream_peek_nth(freader, n)
        IN  /\ last.op = "idle"
            /\ sreader' = s.r
            /\ freader' = f.r
            /\ last' = Call("peek_nth", <<n>>, s, f)
            /\ UNCHANGED <<input, grammar, buffer, queued>>

ConsumeOp ==
    LET s == Stream_consume(sreader)
        f == Stream_consume(freader)
    IN  /\ last.op = "idle"
        /\ sreader' = s.r
        /\ freader' = f.r
        /\ last' = Call("consume", <<>>, s, f)
        /\ UNCHANGED <<input, grammar, buffer, queued>>

ConsumeNthOp ==
    \E n \in 0..(BufferSize - 1) :
        LET s == Stream_consume_nth(sreader, n)
            f == Stream_consume_nth(freader, n)
        IN  /\ last.op = "idle"
            /\ sreader' = s.r
            /\ freader' = f.r
            /\ last' = Call("consume_nth", <<n>>, s, f)
            /\ UNCHANGED <<input, grammar, buffer, queued>>

IsEofOp ==
    LET s == Stream_is_eof(sreader)
        f == Stream_is_eof(freader)
    IN  /\ last.op = "idle"
        /\ sreader' = s.r
        /\ freader' = f.r
        /\ last' = Call("is_eof", <<>>, s, f)
        /\ UNCHANGED <<input, grammar, buffer, queued>>

MatchStrOp ==
    \E pos \in 0..MaxLen, str \in Literals :
        LET s == match_str(sreader, pos, str)
            f == match_str(freader, pos, str)
        IN  /\ last.op = "idle"
            /\ sreader' = s.r
            /\ freader' = f.r
            /\ last' = Call("match_str", <<pos, str>>, s, f)
            /\ UNCHANGED <<input, grammar, buffer, queued>>

MatchRangeOp ==
    \E pos \in 0..MaxLen, range \in Ranges, max \in Maxes :
        LET s == match_range(sreader, pos, range[1], range[2], max)
            f == match_range(freader, pos, range[1], range[2], max)
        IN  /\ last.op = "idle"
            /\ sreader' = s.r
            /\ freader' = f.r
            /\ last' = Call("match_range", <<pos, range[1], range[2], max>>, s, f)
            /\ UNCHANGED <<input, grammar, buffer, queued>>

\* grammar.test(&loc, &mut reader) from a location of the input
TestOp ==
    \E k \in 0..Len(input) :
        \E loc \in {LocAt(k)} :
            \E s \in {Grammar_test(grammar, loc, sreader)},
               f \in {Grammar_test(grammar, loc, freader)} :
                /\ last.op = "idle"
                /\ sreader' = s.r
                /\ freader' = f.r
                /\ last' = Call("test", <<loc>>, [val |-> s.out], [val |-> f.out])
                /\ UNCHANGED <<input, grammar, buffer, queued>>

\* grammar.test(&loc, &mut reader) from the end of the span that the
\* previous test returned
TestNextOp ==
    /\ last.op = "test"
    /\ last.s.res = "Matched"
    /\ Alive
    /\ \E loc \in {last.s.span.end} :
           \E s \in {Grammar_test(grammar, loc, sreader)},
              f \in {Grammar_test(grammar, loc, freader)} :
               /\ sreader' = s.r
               /\ freader' = f.r
               /\ last' = Call("test", <<loc>>, [val |-> s.out], [val |-> f.out])
               /\ UNCHANGED <<input, grammar, buffer, queued>>

\* the caller takes the result of the call and goes on
ReturnOp ==
    /\ last.op # "idle"
    /\ Alive
    /\ last' = Idle
    /\ UNCHANGED <<input, grammar, sreader, freader, buffer, queued>>

NextStream ==
    \/ ReturnOp
    \/ PeekOp
    \/ PeekNthOp
    \/ ConsumeOp
    \/ ConsumeNthOp
    \/ IsEofOp
    \/ MatchStrOp
    \/ MatchRangeOp

NextMatch ==
    \/ ReturnOp
    \/ ConsumeOp
    \/ TestOp
    \/ TestNextOp

\* the capacities of the chunked reader: one that holds a whole input, and
\* one that does not
Capacities == {BufferSize - 1, BufferSize}

\* the readers alone: no grammar is defined
Init == InitWith(Inputs, {GrammarBuilder_new}, Capacities)

Next == NextStream

Spec == Init /\ [][Next]_vars

\* the grammars whose root is m, for m in a set of matchers
GrammarsOf(matchers) ==
    {save_root(GrammarBuilder_new, m) : m \in matchers}

\* every combinator of parser_lib/lexer over the child c
CombinatorsOver(c) ==
    {SequentialMatcher_new(<<c, c>>), ChoiceMatcher_new(<<c, c>>),
     OptionalMatcher_new(c), NotMatcher_new(c), TokenMatcher_new(c),
     RepetitionMatcher_new(c, 0), RepetitionMatcher_new(c, 1),
     UntilMatcher_new(c, 0), UntilMatcher_new(c, 1)}

\* a parse with a combinator over a literal or over a range
InitCombinators ==
    InitWith(Inputs,
             GrammarsOf(CombinatorsOver(StrMatcher_new(<<"a">>))
                        \cup CombinatorsOver(at_least_n("a", "a", 1))),
             {BufferSize})

SpecCombinators == InitCombinators /\ [][NextMatch]_vars

\* a parse of tokens: a literal, a run of a range, or a matcher that can
\* match the empty span
TokenMatchers ==
    {TokenMatcher_new(StrMatcher_new(l)) :
        l \in {<<"a">>, <<"a", "a">>, <<NewLine>>, <<WideChar>>}}
    \cup {TokenMatcher_new(at_least_n("a", "a", 1)),
          TokenMatcher_new(OptionalMatcher_new(StrMatcher_new(<<"a">>))),
          TokenMatcher_new(RepetitionMatcher_new(StrMatcher_new(<<"a">>), 0))}

InitTokens == InitWith(Inputs, GrammarsOf(TokenMatchers), {BufferSize})

SpecTokens == InitTokens /\ [][NextMatch]_vars

\* grammars without a Token, and one with a Token
SampleMatchers ==
    {StrMatcher_new(<<"a", WideChar>>),
     repeat_between(NewLine, "a", 1, 2),
     RepetitionMatcher_new(StrMatcher_new(<<"a">>), 0),
     UntilMatcher_new(StrMatcher_new(<<"a">>), 1),
     SequentialMatcher_new(<<OptionalMatcher_new(StrMatcher_new(<<NewLine>>)),
                             UntilMatcher_new(StrMatcher_new(<<"a">>), 0)>>),
     ChoiceMatcher_new(<<NotMatcher_new(StrMatcher_new(<<"a">>)),
                         RepetitionMatcher_new(RangeMatcher_new("a", "a"), 1)>>),
     SequentialMatcher_new(<<TokenMatcher_new(StrMatcher_new(<<"a">>)),
                             StrMatcher_new(<<"a">>)>>)}

\* inputs of letters and newlines, and inputs with a wide character
SampleInputs ==
    SeqsUpTo({"a", NewLine}, MaxLen)
    \cup {<<WideChar>>, <<"a", WideChar>>, <<WideChar, "a">>}

InitGrammars == InitWith(SampleInputs, GrammarsOf(SampleMatchers), {BufferSize})

\* the position queries and the tests of a grammar, on a reader that the
\* caller advances
NextQueries ==
    \/ ReturnOp
    \/ ConsumeOp
    \/ MatchStrOp
    \/ MatchRangeOp
    \/ TestOp
    \/ TestNextOp

SpecGrammars == InitGrammars /\ [][NextQueries]_vars

\* choices between literals and runs that start alike, with and without a
\* Token among the alternatives
ChoiceMatchers ==
    {ChoiceMatcher_new(cs) : cs \in
        {<<>>,
         <<StrMatcher_new(<<"a">>), StrMatcher_new(<<"a", "a">>)>>,
         <<StrMatcher_new(<<"a", "a">>), StrMatcher_new(<<"a">>)>>,
         <<StrMatcher_new(<<"a">>), at_least_n("a", "a", 1)>>,
         <<at_least_n("a", "a", 2), StrMatcher_new(<<"a">>)>>,
         <<StrMatcher_new(<<NewLine>>), StrMatcher_new(<<"a">>)>>,
         <<StrMatcher_new(<<WideChar>>), at_least_n("a", "a", 1),
           StrMatcher_new(<<NewLine>>)>>,
         <<StrMatcher_new(<<"a">>), TokenMatcher_new(StrMatcher_new(<<"a", "a">>))>>,
         <<StrMatcher_new(<<"a", "a">>), TokenMatcher_new(StrMatcher_new(<<"a">>))>>,
         <<TokenMatcher_new(StrMatcher_new(<<"a">>)), StrMatcher_new(<<"a", "a">>)>>}}

InitChoices == InitWith(Inputs, GrammarsOf(ChoiceMatchers), {BufferSize})

SpecChoices == InitChoices /\ [][NextMatch]_vars

\* repetitions of a literal, of a range, and of matchers that match the
\* empty span
RepetitionMatchers ==
    {RepetitionMatcher_new(c, min) :
        c \in {StrMatcher_new(<<"a">>), StrMatcher_new(<<NewLine>>),
               RangeMatcher_new("a", WideChar),
               OptionalMatcher_new(StrMatcher_new(<<"a">>)),
               StrMatcher_new(<<>>)},
        min \in {0, 1, 2}}

InitRepetitions == InitWith(Inputs, GrammarsOf(RepetitionMatchers), {BufferSize})

SpecRepetitions == InitRepetitions /\ [][NextMatch]_vars

\* a parse with one literal
InitLiterals ==
    InitWith(Inputs, GrammarsOf({StrMatcher_new(l) : l \in Literals}), {BufferSize})

SpecLiterals == InitLiterals /\ [][NextMatch]_vars

\* range matchers: one element, at least n, between min and max
RangeMatchers ==
    {RangeMatcher_new("a", WideChar), at_least_n("a", "a", 0),
     at_least_n("a", "a", 2), repeat_between("a", "a", 1, 2),
     repeat_between(NewLine, "a", 2, 2)}

InitRanges == InitWith(Inputs, GrammarsOf(RangeMatchers), Capacities)

NextRanges ==
    \/ ReturnOp
    \/ ConsumeOp
    \/ MatchRangeOp
    \/ TestOp
    \/ TestNextOp

SpecRanges == InitRanges /\ [][NextRanges]_vars

\* terminators of one element, of two, a newline, a wide character, a range
UntilMatchers ==
    {UntilMatcher_new(until, min) :
        until \in {StrMatcher_new(<<"a">>), StrMatcher_new(<<WideChar>>),
                   StrMatcher_new(<<NewLine, "a">>), RangeMatcher_new("a", "a")},
        min \in {0, 1, 2}}

InitUntils == InitWith(Inputs, GrammarsOf(UntilMatchers), {BufferSize})

SpecUntils == InitUntils /\ [][NextMatch]_vars

\* the members of a sequence: a literal, a newline, a token, a run
SequenceParts ==
    {StrMatcher_new(<<"a">>), StrMatcher_new(<<NewLine>>),
     TokenMatcher_new(StrMatcher_new(<<"a">>)), at_least_n("a", "a", 0)}

\* the sequences seq(seq(a, b), c)
SequentialMatchers ==
    {SequentialMatcher_new(<<SequentialMatcher_new(<<a, b>>), c>>) :
        a \in SequenceParts, b \in SequenceParts, c \in SequenceParts}

InitSequences == InitWith(SampleInputs, GrammarsOf(SequentialMatchers), {BufferSize})

SpecSequences == InitSequences /\ [][NextMatch]_vars

\* a call on the ring buffer: the buffer and the elements it held before
\* the call, and what the call returned
BufferCall(op, args, res) ==
    [op |-> op, args |-> args, before |-> buffer, held |-> queued, res |-> res]

PushOp ==
    \E c \in Alphabet :
        \E p \in {RingBuffer_push(buffer, c)} :
            /\ last.op = "idle"
            /\ buffer' = p.b
            /\ queued' = IF p.ok THEN Append(queued, c) ELSE queued
            /\ last' = BufferCall("push", <<c>>, IF p.ok THEN Ok(<<>>) ELSE Err(p.err))
            /\ UNCHANGED <<input, grammar, sreader, freader>>

PopOp ==
    \E p \in {RingBuffer_pop(buffer)} :
        /\ last.op = "idle"
        /\ buffer' = p.b
        /\ queued' = IF p.val # None /\ queued # <<>> THEN Tail(queued) ELSE queued
        /\ last' = BufferCall("pop", <<>>, p.val)
        /\ UNCHANGED <<input, grammar, sreader, freader>>

BufferPeekOp ==
    /\ last.op = "idle"
    /\ last' = BufferCall("buffer_peek", <<>>, RingBuffer_peek(buffer))
    /\ UNCHANGED <<input, grammar, sreader, freader, buffer, queued>>

BufferPeekNthOp ==
    \E n \in 0..BufferSize :
        /\ last.op = "idle"
        /\ last' = BufferCall("buffer_peek_nth", <<n>>, RingBuffer_peek_nth(buffer, n))
        /\ UNCHANGED <<input, grammar, sreader, freader, buffer, queued>>

\* the ring buffer alone, driven by pushes, pops and peeks
InitBuffer ==
    /\ input = <<>>
    /\ grammar = GrammarBuilder_new
    /\ sreader = StringCharReader_new
    /\ freader = FileCharReader_new(BufferSize)
    /\ last = Idle
    /\ buffer \in {RingBuffer_new(capacity) : capacity \in Capacities}
    /\ queued = <<>>

NextBuffer ==
    \/ ReturnOp
    \/ PushOp
    \/ PopOp
    \/ BufferPeekOp
    \/ BufferPeekNthOp

SpecBuffer == InitBuffer /\ [][NextBuffer]_vars

\* the locations and the deltas handed to add_delta
Locations ==
    {Location_new(line, column, index) :
        line \in 1..MaxLen, column \in 1..MaxLen, index \in 0..MaxLen}

DeltaTriples == (0..(MaxLen - 1)) \X (0..(MaxLen - 1)) \X (0..(MaxLen - 1))

\* loc.add_delta(delta_lines, delta_columns, delta_index)
AddDeltaOp ==
    \E loc \in Locations, d \in DeltaTriples :
        /\ last.op = "idle"
        /\ last' = [op |-> "add_delta", args |-> <<loc, d[1], d[2], d[3]>>,
                    res |-> add_delta(loc, d[1], d[2], d[3])]
        /\ UNCHANGED <<input, grammar, sreader, freader, buffer, queued>>

\* the location arithmetic alone
InitLocations ==
    /\ input = <<>>
    /\ grammar = GrammarBuilder_new
    /\ sreader = StringCharReader_new
    /\ freader = FileCharReader_new(BufferSize)
    /\ last = Idle
    /\ buffer = RingBuffer_new(BufferSize)
    /\ queued = <<>>

NextLocations ==
    \/ ReturnOp
    \/ AddDeltaOp

SpecLocations == InitLocations /\ [][NextLocations]_vars

\* FileCharReader::load_chars(n), called by the owner of the reader; panic
\* is an index past the 4-byte window or a push that failed
LoadCharsOp ==
    \E n \in 1..BufferSize :
        LET l == load_chars(freader, n)
        IN  /\ last.op = "idle"
            /\ freader' = l.r
            /\ last' = [op |-> "load_chars", args |-> <<n>>, before_f |-> freader,
                        loaded |-> l.loaded, panic |-> l.panic]
            /\ UNCHANGED <<input, grammar, sreader, buffer, queued>>

\* consume of an element that is already in the buffer: no refill
ConsumeLoadedOp == freader.buffer.size > 0 /\ ConsumeOp

\* the refill of the chunked reader from files of valid UTF-8 and from
\* files that start with a byte that never decodes
InitRefill ==
    InitWith(SeqsUpTo(Alphabet, MaxLen) \cup
                 {<<InvalidByte>> \o s : s \in SeqsUpTo({"a"}, MaxLen + 1)},
             {GrammarBuilder_new}, {BufferSize})

NextRefill == ReturnOp \/ LoadCharsOp \/ ConsumeLoadedOp

SpecRefill == InitRefill /\ [][NextRefill]_vars

\* RepetitionMatcher::test one iteration at a time.  loop holds count,
\* end_loc and, once the loop is over, the result; one step evaluates the
\* condition of the `while let` once and then runs the body or leaves the
\* loop for the comparison with min.
RepetitionStep(m, loc, loop, r) ==
    IF loop.out # None THEN [loop |-> loop, r |-> r]
    ELSE With(test(m.value, loop.end_loc, r), LAMBDA t :
            IF t.out.res = "Matched"
            THEN IF loop.count = U8Max
                 THEN [loop |-> [loop EXCEPT !.out = Some(Overflow)], r |-> t.r]
                 ELSE [loop |-> [loop EXCEPT !.count = @ + 1,
                                             !.end_loc = t.out.span.end],
                       r |-> t.r]
            ELSE IF Returns(t.out)
            THEN [loop |-> [loop EXCEPT !.out =
                               Some(AtLeastMin(m, loc, loop.end_loc, t.r,
                                               loop.count).out)],
                  r |-> t.r]
            ELSE [loop |-> [loop EXCEPT !.out = Some(t.out)], r |-> t.r])

\* grammar.test(&loc, &mut reader) on a Repetition, from the location of
\* the cursor: `let mut count = 0; let mut end_loc = *loc;`
BeginRepetitionOp ==
    \E loc \in {LocAt(Cursor(sreader))} :
        /\ last.op = "idle"
        /\ grammar.root # None
        /\ grammar.root[1].type = "Repetition"
        /\ last' = [op |-> "repetition", args |-> <<loc>>,
                    pre_s |-> Cursor(sreader), pre_f |-> Cursor(freader),
                    before_s |-> sreader, before_f |-> freader,
                    loop_s |-> [count |-> 0, end_loc |-> loc, out |-> None],
                    loop_f |-> [count |-> 0, end_loc |-> loc, out |-> None]]
        /\ UNCHANGED <<input, grammar, sreader, freader, buffer, queued>>

\* one iteration on each reader; the call returns when both loops are over
RepetitionStepOp ==
    /\ last.op = "repetition"
    /\ \E s \in {RepetitionStep(grammar.root[1], last.args[1], last.loop_s, sreader)},
          f \in {RepetitionStep(grammar.root[1], last.args[1], last.loop_f, freader)} :
           /\ sreader' = s.r
           /\ freader' = f.r
           /\ last' = IF s.loop.out # None /\ f.loop.out # None
                      THEN [op |-> "test", args |-> last.args,
                            pre_s |-> last.pre_s, pre_f |-> last.pre_f,
                            before_s |-> last.before_s, before_f |-> last.before_f,
                            s |-> s.loop.out[1], f |-> f.loop.out[1]]
                      ELSE [last EXCEPT !.loop_s = s.loop, !.loop_f = f.loop]
    /\ UNCHANGED <<input, grammar, buffer, queued>>

\* repetitions of a literal over short runs of it, and over runs that are
\* as long as the u8 counter can count and longer; the chunked reader has
\* room for the run
InitCounters ==
    InitWith({[i \in 1..n |-> "a"] : n \in (0..MaxLen) \cup (U8Max..(U8Max + 1))},
             GrammarsOf({RepetitionMatcher_new(StrMatcher_new(<<"a">>), min) :
                            min \in {0, 1, U8Max}}),
             {U8Max + MaxLen + 3})

NextCounters ==
    \/ ReturnOp
    \/ Cursor(sreader) < MaxLen /\ ConsumeOp
    \/ BeginRepetitionOp
    \/ RepetitionStepOp

SpecCounters == InitCounters /\ [][NextCounters]_vars

\* define_grammar!(my_grammar, ..): one or more terms, a term being an
\* integer or an operator; word!, range!, choice! and at_least make a
\* StrMatcher, a RangeMatcher, a ChoiceMatcher and a RepetitionMatcher
my_grammar ==
    LET plus == StrMatcher_new(<<"+">>)
        minus == StrMatcher_new(<<"-">>)
        times == StrMatcher_new(<<"*">>)
        divide == StrMatcher_new(<<"/">>)
        modulo == StrMatcher_new(<<"%">>)
        digit == RangeMatcher_new("0", "9")
        integer == RepetitionMatcher_new(digit, 1)
        operator == ChoiceMatcher_new(<<plus, minus, times, divide, modulo>>)
        term == ChoiceMatcher_new(<<integer, operator>>)
        expression == RepetitionMatcher_new(term, 1)
    IN  save_root(GrammarBuilder_new, expression)

\* texts of digits and operators, "22+13" among them
Expressions ==
    (SeqsUpTo({"2", "+", "%"}, MaxLen) \ {<<>>}) \cup {<<"2", "2", "+", "1", "3">>}

\* a parse of an expression, the chunked reader having room for the text
InitExpressions == InitWith(Expressions, {my_grammar}, {BufferSize + 4})

SpecExpressions == InitExpressions /\ [][NextMatch]_vars

(***************************************************************************)
(* Claims.                                                                 *)
(***************************************************************************)
IsError(res, kind) == ~res.ok /\ res.err.kind = kind

StreamOps == {"peek", "peek_nth", "consume", "consume_nth", "is_eof"}

\* C3: driven over the same input by the same peek, peek_nth(n), consume,
\* consume_nth(n) and is_eof calls, n smaller than the capacity, the chunked
\* reader and the in-memory reader return the same result at every step.
C3_ReadersAgree ==
    last.op \in StreamOps => last.f = last.s

\* the matcher that a combinator tests first
FirstChild(m) ==
    IF m.type \in {"Seq", "Choice"} THEN m.children[1]
    ELSE IF m.type = "Until" THEN m.until
    ELSE m.value

TestedRoot == last.op = "test" /\ grammar.root # None

\* C1: when the child that a combinator tests first returns Error(e), the
\* test of the combinator returns that same Error(e), on either reader.
C1_ErrorPropagates ==
    TestedRoot =>
        LET root == grammar.root[1]
            loc == last.args[1]
            cs == test(FirstChild(root), loc, last.before_s)
            cf == test(FirstChild(root), loc, last.before_f)
        IN  /\ cs.out.res = "Error" => last.s = cs.out
            /\ cf.out.res = "Error" => last.f = cf.out

\* one Token test of a chain: inner is what the inner matcher returns at
\* loc, out what the Token returned, pre and post the cursor before and after
TokenStep(inner, out, pre, post, loc) ==
    /\ inner.res = "Matched" => out.res = "Matched" /\ post = out.span.end.index
    /\ inner.res = "NoMatch" => out = empty(loc) /\ post = pre

\* C4: in a chain of Token tests, each started where the previous one ended
\* (so at the cursor), a test that matches leaves the cursor at the end
\* index of its span, and a test whose inner matcher does not match leaves
\* the cursor where it was and returns the empty span at its location.
C4_TokenCursor ==
    (TestedRoot /\ grammar.root[1].type = "Token") =>
        \A loc \in {last.args[1]} :
            /\ last.pre_s = loc.index =>
                  TokenStep(test(grammar.root[1].value, loc, last.before_s).out,
                            last.s, last.pre_s, Cursor(sreader), loc)
            /\ last.pre_f = loc.index =>
                  TokenStep(test(grammar.root[1].value, loc, last.before_f).out,
                            last.f, last.pre_f, Cursor(freader), loc)

RECURSIVE HasToken(_)
HasToken(m) ==
    CASE m.type \in {"Str", "Range"} -> FALSE
      [] m.type \in {"Seq", "Choice"} ->
            \E i \in 1..Len(m.children) : HasToken(m.children[i])
      [] m.type = "Until" -> HasToken(m.until)
      [] m.type = "Token" -> TRUE
      [] OTHER -> HasToken(m.value)

\* C5: a test of a grammar without Token that returns (Matched, NoMatch or
\* Error) leaves the cursor of the reader where it was, and the same test
\* made again on the reader returns the same result; match_str and
\* match_range leave the cursor where it was.
C5_CursorUnchanged ==
    /\ last.op \in {"match_str", "match_range"} =>
          Cursor(sreader) = last.pre_s /\ Cursor(freader) = last.pre_f
    /\ (TestedRoot /\ ~HasToken(grammar.root[1])) =>
          /\ Returns(last.s) =>
                /\ Cursor(sreader) = last.pre_s
                /\ test(grammar.root[1], last.args[1], sreader).out = last.s
          /\ Returns(last.f) =>
                /\ Cursor(freader) = last.pre_f
                /\ test(grammar.root[1], last.args[1], freader).out = last.f

\* a test that matched elements ahead of a cursor that had moved, the
\* chunked reader having loaded them
C5_Witness ==
    /\ TestedRoot
    /\ ~HasToken(grammar.root[1])
    /\ last.s.res = "Matched" /\ last.f.res = "Matched"
    /\ last.s.span.end.index > last.s.span.start.index
    /\ last.pre_s > 0 /\ Cursor(sreader) = last.pre_s
    /\ last.pre_f > 0 /\ Cursor(freader) = last.pre_f
    /\ freader # last.before_f

\* what each alternative returns when tested alone at loc on the reader b
Alternatives(cs, loc, b) ==
    [i \in 1..Len(cs) |-> test(cs[i], loc, b)]

\* out and the reader p are those of the first alternative of cs that
\* returns something else than NoMatch
FirstAlternative(cs, loc, b, out, p) ==
    \A alts \in {Alternatives(cs, loc, b)} :
        \A hit \in {{i \in DOMAIN alts : alts[i].out.res # "NoMatch"}} :
            IF hit = {} THEN out = NoMatch
            ELSE \A i \in {CHOOSE i \in hit : \A j \in hit : i <= j} :
                    IF alts[i].out.res = "Matched"
                    THEN /\ out.res = "Matched"
                         /\ out.span = Span_new(loc, alts[i].out.span.end)
                         /\ Cursor(p) = Cursor(alts[i].r)
                    ELSE out = alts[i].out

\* C6: Choice returns the span of the first alternative, in the order of
\* declaration, that matches at the location, and leaves the reader as that
\* alternative leaves it (the alternatives after it are not tested); it
\* returns NoMatch iff every alternative returns NoMatch.
C6_FirstAlternative ==
    (TestedRoot /\ grammar.root[1].type = "Choice") =>
        /\ FirstAlternative(grammar.root[1].children, last.args[1],
                            last.before_s, last.s, sreader)
        /\ FirstAlternative(grammar.root[1].children, last.args[1],
                            last.before_f, last.f, freader)

\* two alternatives match, the second one a longer span or one that a Token
\* consumes, and Choice returned the span of the first
C6_Witness ==
    /\ TestedRoot
    /\ grammar.root[1].type = "Choice"
    /\ Len(grammar.root[1].children) = 2
    /\ \E alts \in {Alternatives(grammar.root[1].children, last.args[1],
                                  last.before_s)} :
          /\ alts[1].out.res = "Matched" /\ alts[2].out.res = "Matched"
          /\ alts[2].out.span.end.index > alts[1].out.span.end.index
          /\ Cursor(alts[2].r) > last.pre_s
          /\ last.s.res = "Matched"
          /\ last.s.span.end = alts[1].out.span.end
          /\ Cursor(sreader) = last.pre_s
    /\ last.f = last.s

\* the consecutive matches of inner from loc on the reader b, each tested
\* at the end of the previous one, at most fuel of them: how many, where the
\* last one ends, and whether inner returned an Error
RECURSIVE Iterations(_, _, _, _)
Iterations(inner, loc, b, fuel) ==
    With(test(inner, loc, b), LAMBDA t :
        IF t.out.res = "Matched" /\ fuel > 0
        THEN With(Iterations(inner, t.out.span.end, t.r, fuel - 1), LAMBDA rest :
                [rest EXCEPT !.count = @ + 1])
        ELSE [count |-> 0, end |-> loc,
              error |-> t.out.res \notin {"Matched", "NoMatch"}])

\* out is what Repetition(inner, min) is to return at loc on the reader b
RepetitionResult(inner, min, loc, b, out) ==
    \A run \in {Iterations(inner, loc, b, MaxLen + 1)} :
        ~run.error =>
            /\ min = 0 => out.res = "Matched"
            /\ min > 0 => (out = NoMatch <=> run.count < min)
            /\ out.res = "Matched" => out.span = Span_new(loc, run.end)

\* C7: Repetition(min=0) always returns Matched; Repetition(min=k>0)
\* returns NoMatch iff fewer than k consecutive matches of the inner matcher
\* occur from the location; a Matched span runs from the location to the end
\* of the last iteration that matched.
C7_RepetitionCount ==
    (TestedRoot /\ grammar.root[1].type = "Repetition") =>
        /\ RepetitionResult(grammar.root[1].value, grammar.root[1].min,
                            last.args[1], last.before_s, last.s)
        /\ RepetitionResult(grammar.root[1].value, grammar.root[1].min,
                            last.args[1], last.before_f, last.f)

\* the text occurs in the input from the element at position k on
Occurs(text, k) ==
    /\ k + Len(text) <= Len(input)
    /\ \A i \in 1..Len(text) : input[k + i] = text[i]

\* out is Matched iff the literal occurs at loc.index, its span then
\* starting at loc and having the length of the literal (str::len)
LiteralResult(m, loc, out) ==
    /\ out.res = "Matched" <=> Occurs(m.value, loc.index)
    /\ out.res = "NoMatch" <=> ~Occurs(m.value, loc.index)
    /\ out.res = "Matched" =>
          /\ out.span.start = loc
          /\ out.span.end.index - out.span.start.index = StrLen(m.value)

RECURSIVE RunLength(_, _, _)
RunLength(k, start, end) ==
    IF k >= Len(input) THEN 0
    ELSE IF CodePoint(input[k + 1]) < CodePoint(start)
            \/ CodePoint(input[k + 1]) > CodePoint(end) THEN 0
    ELSE 1 + RunLength(k + 1, start, end)

\* the count that match_range is to return
Counted(r, max) == IF max = 0 THEN r ELSE Min(r, max)

\* out is what the range matcher m is to return at loc
RangeResult(m, loc, out) ==
    \A r \in {RunLength(loc.index, m.start, m.end)} :
        /\ out = NoMatch <=> r < m.min
        /\ r >= m.min =>
              /\ out.res = "Matched"
              /\ out.span = Span_new(loc, add(loc, Counted(r, m.max)))
              /\ m.max = 0 \/ out.span.end.index - loc.index <= m.max

\* C9: at a position that is not behind the cursor match_range returns r
\* when max is 0 and min(r, max) otherwise; a range matcher with bounds
\* (min, max) returns NoMatch iff r < min, and otherwise matches that many
\* elements, its span ending at loc advanced by as many columns.
C9_RangeCount ==
    /\ last.op = "match_range" =>
          \A n \in {Counted(RunLength(last.args[1], last.args[2], last.args[3]),
                             last.args[4])} :
              /\ last.args[1] >= last.pre_s => last.s = Ok(n)
              /\ last.args[1] >= last.pre_f => last.f = Ok(n)
    /\ (TestedRoot /\ grammar.root[1].type = "Range") =>
          /\ last.args[1].index >= last.pre_s =>
                RangeResult(grammar.root[1], last.args[1], last.s)
          /\ last.args[1].index >= last.pre_f =>
                RangeResult(grammar.root[1], last.args[1], last.f)

\* loc advanced over the j elements of the input that follow it
RECURSIVE Advance(_, _)
Advance(loc, j) ==
    IF j = 0 \/ loc.index >= Len(input) THEN loc
    ELSE Advance(increment_for(loc, input[loc.index + 1]), j - 1)

\* the offsets from loc at which the input ends or until matches, on the
\* reader b
Stops(until, loc, b) ==
    {j \in 0..(Len(input) - loc.index) :
        \/ loc.index + j = Len(input)
        \/ test(until, Advance(loc, j), b).out.res = "Matched"}

\* out is what Until(until, min) is to return at loc on the reader b
UntilResult(m, loc, b, out) ==
    \A stops \in {Stops(m.until, loc, b)} :
        \A k \in {CHOOSE j \in stops : \A i \in stops : j <= i} :
            /\ k >= m.min =>
                  /\ out.res = "Matched"
                  /\ out.span.start = loc
                  /\ out.span.end.index = loc.index + k
            /\ k < m.min => out = NoMatch

\* C10: Until(until, min) tested at loc takes k elements, k the smallest
\* offset from loc at which until matches or the input ends; it returns
\* Matched with a span over those k elements iff k >= min, and NoMatch
\* otherwise.  The chunked reader may refuse the look-ahead instead.
C10_UntilStop ==
    (/\ TestedRoot
     /\ grammar.root[1].type = "Until"
     /\ last.args[1].index <= Len(input)) =>
        /\ last.args[1].index >= last.pre_s =>
              UntilResult(grammar.root[1], last.args[1], last.before_s, last.s)
        /\ (last.args[1].index >= last.pre_f /\ last.f.res # "Error") =>
              UntilResult(grammar.root[1], last.args[1], last.before_f, last.f)

\* out is what Until(until, min) is to return at loc on the reader b when
\* the k elements it takes are at least min: a span that ends at loc advanced
\* over each of them, a newline leading to the next line, column 1
UntilEnd(m, loc, b, out) ==
    \A stops \in {Stops(m.until, loc, b)} :
        \A k \in {CHOOSE j \in stops : \A i \in stops : j <= i} :
            k >= m.min =>
                /\ out.res = "Matched"
                /\ out.span.end = Advance(loc, k)

\* C11: each element Until takes advances the end of its span by one
\* element: a newline to line + 1, column 1, index + 1, any other element to
\* column + 1, index + 1; so a span over k elements of which m are newlines
\* ends at index = start.index + k on line = start.line + m.
C11_UntilAdvance ==
    (/\ TestedRoot
     /\ grammar.root[1].type = "Until"
     /\ last.args[1].index <= Len(input)) =>
        /\ last.args[1].index >= last.pre_s =>
              UntilEnd(grammar.root[1], last.args[1], last.before_s, last.s)
        /\ (last.args[1].index >= last.pre_f /\ last.f.res # "Error") =>
              UntilEnd(grammar.root[1], last.args[1], last.before_f, last.f)

\* out is what Optional over inner is to return at loc on the reader b:
\* never NoMatch, what inner returns when inner matches, and the empty span
\* at loc when inner returns anything else; an Error only after one of inner
OptionalResult(inner, loc, b, out) ==
    \A t \in {test(inner, loc, b).out} :
        /\ out.res # "NoMatch"
        /\ t.res = "Matched" => out = t
        /\ (Returns(t) /\ t.res # "Matched") => out = empty(loc)
        /\ out.res = "Error" => t.res = "Error"

\* out is what Not over inner is to return at loc on the reader b: the empty
\* span at loc iff inner returns NoMatch, NoMatch iff inner matches, and an
\* Error only after one of inner
NotResult(inner, loc, b, out) ==
    \A t \in {test(inner, loc, b).out} :
        /\ out = empty(loc) <=> t.res = "NoMatch"
        /\ out = NoMatch <=> t.res = "Matched"
        /\ out.res = "Error" => t.res = "Error"

LeftNested ==
    /\ TestedRoot
    /\ grammar.root[1].type = "Seq"
    /\ Len(grammar.root[1].children) = 2
    /\ grammar.root[1].children[1].type = "Seq"
    /\ Len(grammar.root[1].children[1].children) = 2

\* seq(a, seq(b, c)) for the root seq(seq(a, b), c)
RightNested ==
    SequentialMatcher_new(
        <<grammar.root[1].children[1].children[1],
          SequentialMatcher_new(<<grammar.root[1].children[1].children[2],
                                  grammar.root[1].children[2]>>)>>)

\* C13: for matchers a, b, c, on every input and from every location,
\* seq(seq(a, b), c) and seq(a, seq(b, c)) return the same outcome, with the
\* same span when they match.
C13_SeqAssociative ==
    LeftNested =>
        \A right \in {RightNested} :
            /\ test(right, last.args[1], last.before_s).out = last.s
            /\ test(right, last.args[1], last.before_f).out = last.f

\* both nestings matched three members over a span that crosses a line
C13_Witness ==
    /\ LeftNested
    /\ last.s.res = "Matched"
    /\ last.s.span.end.index = last.s.span.start.index + 3
    /\ last.s.span.end.line > last.s.span.start.line
    /\ test(RightNested, last.args[1], last.before_s).out = last.s
    /\ last.f = last.s

BufferOps == {"push", "pop", "buffer_peek", "buffer_peek_nth"}

\* C14: from an empty buffer, after any interleaving of successful pushes
\* and pops, cursors wrapping included, pop returns the element pushed
\* first among those not yet popped, and peek_nth(i), i < size, returns the
\* i-th oldest of them, leaving size and the read cursor as they were.
\* (queued holds the elements pushed and not yet popped, oldest first.)
C14_Fifo ==
    /\ buffer.size = Len(queued)
    /\ (last.op = "pop" /\ last.held # <<>>) =>
          /\ last.res = Some(Head(last.held))
          /\ queued = Tail(last.held)
    /\ (last.op = "buffer_peek" /\ last.held # <<>>) =>
          last.res = Some(Head(last.held))
    /\ (last.op = "buffer_peek_nth" /\ last.args[1] < last.before.size) =>
          /\ last.res = Some(last.held[last.args[1] + 1])
          /\ buffer.size = last.before.size
          /\ buffer.read_pos = last.before.read_pos

\* a pop and a peek_nth of a full buffer whose cursors had wrapped, the
\* oldest element differing from the newest
C14_Witness ==
    /\ last.op \in {"pop", "buffer_peek_nth"}
    /\ last.before.size = RingBuffer_capacity(buffer)
    /\ last.before.read_pos > 0
    /\ Head(last.held) # last.held[Len(last.held)]
    /\ last.op = "pop" => last.res = Some(Head(last.held))
    /\ last.op = "buffer_peek_nth" =>
          /\ last.args[1] = Len(last.held) - 1
          /\ last.res = Some(last.held[Len(last.held)])

\* C15: size never exceeds the capacity; push on a full buffer returns the
\* NotEnoughSpace error and leaves read cursor, write cursor, size and the
\* stored elements as they were; pop, peek and peek_nth on an empty buffer
\* return nothing and leave the buffer as it was.
C15_FullAndEmpty ==
    /\ buffer.size <= RingBuffer_capacity(buffer)
    /\ (last.op = "push" /\ last.before.size = RingBuffer_capacity(last.before)) =>
          /\ last.res = Err(NotEnoughSpace(last.args[1]))
          /\ buffer = last.before
    /\ (last.op \in {"pop", "buffer_peek", "buffer_peek_nth"}
        /\ last.before.size = 0) =>
          /\ last.res = None
          /\ buffer = last.before

\* a push refused by a full buffer whose cursors had wrapped
C15_Witness ==
    /\ last.op = "push"
    /\ last.before.size = RingBuffer_capacity(last.before)
    /\ last.before.read_pos > 0
    /\ last.res = Err(NotEnoughSpace(last.args[1]))
    /\ buffer = last.before

\* res and the reader after are what consume_nth(n) is to give on the
\* reader before, whose cursor is pre: the element that peek_nth(n) returns,
\* the cursor n + 1 elements further when the input has that many, the next
\* consume returning the element after it; nothing at the end of the input
ConsumeNthResult(n, pre, before, res, after) ==
    /\ res = Stream_peek_nth(before, n).val
    /\ pre + n < Len(input) =>
          /\ res = Some(input[pre + n + 1])
          /\ Cursor(after) = pre + n + 1
          /\ Stream_consume(after).val = chars_nth(pre + n + 1)
    /\ pre >= Len(input) => res = None

\* C16: on both readers consume_nth(n) advances the cursor by n + 1
\* elements and returns the last of them, the element peek_nth(n) returned
\* just before, so that the following consume returns the element after it;
\* consume() does what consume_nth(0) does; at the end of the input they
\* return nothing.
C16_ConsumeNth ==
    /\ last.op = "consume_nth" =>
          /\ ConsumeNthResult(last.args[1], last.pre_s, last.before_s, last.s, sreader)
          /\ ConsumeNthResult(last.args[1], last.pre_f, last.before_f, last.f, freader)
    /\ last.op = "consume" =>
          /\ ConsumeNthResult(0, last.pre_s, last.before_s, last.s, sreader)
          /\ ConsumeNthResult(0, last.pre_f, last.before_f, last.f, freader)
          /\ Stream_consume_nth(last.before_s, 0) = [r |-> sreader, val |-> last.s]
          /\ Stream_consume_nth(last.before_f, 0) = [r |-> freader, val |-> last.f]

\* eof is what is_eof() is to return on the reader r: true iff peek() and
\* consume() return nothing
EofResult(eof, r) ==
    eof <=> (Stream_peek(r).val = None /\ Stream_consume(r).val = None)

\* C17: after any sequence of peek, peek_nth, consume, consume_nth,
\* match_str and match_range calls, is_eof() returns true iff no further
\* element can be produced (peek() and consume() return nothing), on the
\* in-memory reader and on the chunked reader, also after a consume_nth
\* that asked for more elements than remained.
C17_IsEof ==
    last.op = "is_eof" =>
        /\ EofResult(last.s, sreader)
        /\ EofResult(last.f, freader)

\* C18: when match_str(pos, s) fails with LookAheadBufferOverflow, the
\* position that the error carries is pos + len(s), pos being the absolute
\* index handed by the caller, also when elements were consumed before the
\* call (len being str::len).
C18_OverflowPosition ==
    (last.op = "match_str" /\ IsError(last.f, "LookAheadBufferOverflow")) =>
        last.f.err.pos = last.args[1] + StrLen(last.args[2])

\* res is what match_range(pos, start, end, max) is to return on the
\* chunked reader of capacity C whose cursor is c: NoLookBehind iff pos < c;
\* otherwise the count n of the run, or LookAheadBufferOverflow when the
\* run reaches a relative offset that the buffer cannot retain
RangeWindow(pos, n, c, C, res) ==
    /\ IsError(res, "NoLookBehind") <=> pos < c
    /\ pos >= c =>
          \/ res = Ok(n)
          \/ IsError(res, "LookAheadBufferOverflow") /\ pos - c + n >= C

\* C19: match_range on the chunked reader has the error conditions of
\* match_str: it fails with NoLookBehind when pos is before the cursor, and
\* with LookAheadBufferOverflow, never with a truncated count, when counting
\* the run needs an element at a relative offset beyond the capacity.
C19_RangeWindow ==
    last.op = "match_range" =>
        RangeWindow(last.args[1],
                    Counted(RunLength(last.args[1], last.args[2], last.args[3]),
                            last.args[4]),
                    last.pre_f, RingBuffer_capacity(freader.buffer), last.f)

\* C20 as stated: add_delta(delta_lines, delta_columns, delta_index)
\* returns line + delta_lines and index + delta_index, with the column
\* delta_columns when delta_lines > 0 and column + delta_columns otherwise.
C20_AddDelta ==
    last.op = "add_delta" =>
        last.res = Location_new(last.args[1].line + last.args[2],
                                IF last.args[2] > 0 THEN last.args[3]
                                ELSE last.args[1].column + last.args[3],
                                last.args[1].index + last.args[4])

\* C20 amended: add_delta returns line + delta_lines and index +
\* delta_index, with the column 1 + delta_columns when delta_lines > 0
\* (columns are counted from 1 on the new line) and column + delta_columns
\* otherwise.
C20_AddDeltaFromOne ==
    last.op = "add_delta" =>
        last.res = Location_new(last.args[1].line + last.args[2],
                                IF last.args[2] > 0 THEN 1 + last.args[3]
                                ELSE last.args[1].column + last.args[3],
                                last.args[1].index + last.args[4])

\* add_delta over a text with a newline and elements after it, from a
\* column that is not the first
C20_Witness ==
    /\ last.op = "add_delta"
    /\ last.args[1].column > 1
    /\ last.args[2] > 0
    /\ last.args[3] > 0
    /\ last.res.column = 1 + last.args[3]
    /\ last.res.line = last.args[1].line + last.args[2]

\* out, when it is a match, is a span that starts at loc and does not end
\* before it, of length end.index - start.index; computing that length did
\* not underflow
ForwardSpan(loc, out) ==
    /\ out.res # "Overflow"
    /\ out.res = "Matched" =>
          /\ out.span.start = loc
          /\ out.span.end.index >= out.span.start.index
          /\ out.span.end.line >= out.span.start.line
          /\ out.len = out.span.end.index - out.span.start.index

\* C21: for every matcher, input and start location, a Matched result has
\* its span start at the location passed in, end.index >= start.index and
\* end.line >= start.line; so the index does not decrease along a chain of
\* matches, and end.index - start.index never underflows.
C21_ForwardSpan ==
    TestedRoot =>
        /\ ForwardSpan(last.args[1], last.s)
        /\ ForwardSpan(last.args[1], last.f)

\* a match away from the beginning of the input, over a newline
C21_Witness ==
    /\ TestedRoot
    /\ last.args[1].index > 0
    /\ last.s.res = "Matched"
    /\ last.s.span.start = last.args[1]
    /\ last.s.span.end.line > last.s.span.start.line
    /\ last.s.span.end.index > last.s.span.start.index
    /\ last.f = last.s

\* the match of the whole input, tested from its beginning
WholeInput ==
    Matched(Span_new(beginning, Location_new(1, Len(input) + 1, Len(input))),
            Len(input))

C23_Terminates ==
    TestedRoot => Returns(last.s) /\ Returns(last.f)

\* C24: when the test of a Sequence returns NoMatch, the cursor of the
\* reader is where it was before the call, on either reader, also when an
\* earlier child of the sequence is a Token that matched.
C24_NoPartialCommit ==
    (TestedRoot /\ grammar.root[1].type = "Seq") =>
        /\ last.s = NoMatch => Cursor(sreader) = last.pre_s
        /\ last.f = NoMatch => Cursor(freader) = last.pre_f

\* C25: in every state of the chunked reader the number of elements held in
\* the ring buffer is nb_read_from_file - nb_read_from_buffer, and
\* nb_read_from_buffer <= nb_read_from_file.
C25_BufferCounts ==
    /\ freader.buffer.size = freader.nb_read_from_file - freader.nb_read_from_buffer
    /\ freader.nb_read_from_buffer <= freader.nb_read_from_file

\* the counters of the chunked reader never decrease
C25_CountersGrow ==
    [][/\ freader'.nb_read_from_file >= freader.nb_read_from_file
       /\ freader'.nb_read_from_buffer >= freader.nb_read_from_buffer]_vars

\* C26: a refill never writes a fifth byte into the window being decoded:
\* when four bytes do not decode, load_chars gives them up and returns as
\* if the source were exhausted; it pushes at most n elements and its push
\* into the ring buffer never fails.
C26_Refill ==
    last.op = "load_chars" =>
        /\ ~last.panic
        /\ last.loaded <= last.args[1]
        /\ freader.buffer.size = last.before_f.buffer.size + last.loaded

\* on a file of valid UTF-8 the refill neither leaves the window nor fails
\* to push, and loads at most n elements
C26_ValidRefill ==
    (last.op = "load_chars" /\ \A i \in 1..Len(input) : input[i] # InvalidByte) =>
        /\ ~last.panic
        /\ last.loaded <= last.args[1]
        /\ freader.buffer.size = last.before_f.buffer.size + last.loaded

\* a refill that stops on four bytes that do not decode, the file ending
\* with them
C26_FourBytes ==
    /\ last.op = "load_chars"
    /\ Len(input) = 4 /\ input[1] = InvalidByte
    /\ ~last.panic /\ last.loaded = 0

\* C27: a literal that matches at the element position p ends at the index
\* p plus the number of characters of the literal, on either reader, a
\* literal with a character wider than one byte included.
C27_CharacterIndex ==
    (TestedRoot /\ grammar.root[1].type = "Str") =>
        /\ last.s.res = "Matched" =>
              last.s.span.end.index = last.args[1].index + Len(grammar.root[1].value)
        /\ last.f.res = "Matched" =>
              last.f.span.end.index = last.args[1].index + Len(grammar.root[1].value)

\* the location of the element at position k of a text without a newline
OnFirstLine(k) == Location_new(1, k + 1, k)

\* C28: a Repetition of the literal "a" tested at the cursor of a run of n
\* elements "a" returns Matched over the n elements whenever n >= min, on
\* either reader, also when n is more than the 255 that an 8-bit counter
\* holds.
C28_CounterWidth ==
    (/\ TestedRoot
     /\ grammar.root[1].type = "Repetition"
     /\ grammar.root[1].value = StrMatcher_new(<<"a">>)
     /\ \A i \in 1..Len(input) : input[i] = "a"
     /\ last.args[1] = OnFirstLine(last.pre_s)
     /\ last.args[1] = OnFirstLine(last.pre_f)
     /\ Len(input) - last.args[1].index >= grammar.root[1].min) =>
        /\ last.s = matches(last.args[1], OnFirstLine(Len(input)))
        /\ last.f = matches(last.args[1], OnFirstLine(Len(input)))

\* a run of 255 iterations, which the counter holds, is matched
C28_FullCounter ==
    /\ TestedRoot
    /\ grammar.root[1].min = U8Max
    /\ Len(input) - last.args[1].index = U8Max
    /\ last.s = matches(last.args[1], OnFirstLine(Len(input)))
    /\ last.f = last.s

\* on a short run the loop taken one iteration at a time returns what
\* RepetitionMatcher_test returns
C28_SameLoop ==
    (TestedRoot /\ grammar.root[1].type = "Repetition" /\ Len(input) <= MaxLen) =>
        /\ last.s = test(grammar.root[1], last.args[1], last.before_s).out
        /\ last.f = test(grammar.root[1], last.args[1], last.before_f).out

\* a Token whose inner matcher returned the empty span returns that span
\* and leaves the cursor at pre
EmptyToken(inner, out, pre, post) ==
    (inner.res = "Matched" /\ inner.span.end = inner.span.start) =>
        out = inner /\ post = pre

\* C29: a Token tested at the cursor whose inner matcher matches the empty
\* span returns that empty span and leaves the cursor where it was, on
\* either reader, at index 0 included.
C29_EmptyToken ==
    (TestedRoot /\ grammar.root[1].type = "Token") =>
        \A loc \in {last.args[1]} :
            /\ last.pre_s = loc.index =>
                  EmptyToken(test(grammar.root[1].value, loc, last.before_s).out,
                             last.s, last.pre_s, Cursor(sreader))
            /\ last.pre_f = loc.index =>
                  EmptyToken(test(grammar.root[1].value, loc, last.before_f).out,
                             last.f, last.pre_f, Cursor(freader))

\* away from index 0 the subtraction does not underflow, and the cursor
\* moves all the same
C29_EmptyTokenAhead ==
    (TestedRoot /\ grammar.root[1].type = "Token" /\ last.args[1].index > 0) =>
        \A loc \in {last.args[1]} :
            /\ last.pre_s = loc.index =>
                  EmptyToken(test(grammar.root[1].value, loc, last.before_s).out,
                             last.s, last.pre_s, Cursor(sreader))
            /\ last.pre_f = loc.index =>
                  EmptyToken(test(grammar.root[1].value, loc, last.before_f).out,
                             last.f, last.pre_f, Cursor(freader))

\* increment_for applied to loc for each character of the text in order
RECURSIVE Walk(_, _)
Walk(loc, text) ==
    IF text = <<>> THEN loc ELSE Walk(increment_for(loc, Head(text)), Tail(text))

\* C30: the end location of a literal that matched, computed with add_delta
\* from the newline count and the length of the last line of the literal,
\* is the start location moved by increment_for over each character of the
\* literal: same line, same column, same index.
C30_DeltaIsWalk ==
    (TestedRoot /\ grammar.root[1].type = "Str") =>
        /\ last.s.res = "Matched" =>
              last.s.span.end = Walk(last.args[1], grammar.root[1].value)
        /\ last.f.res = "Matched" =>
              last.f.span.end = Walk(last.args[1], grammar.root[1].value)

\* the line and the column are those of the walk for every literal, and the
\* index too for a literal of one-byte characters
C30_LineAndColumn ==
    (TestedRoot /\ grammar.root[1].type = "Str" /\ last.s.res = "Matched") =>
        \A end \in {Walk(last.args[1], grammar.root[1].value)} :
            /\ last.s.span.end.line = end.line
            /\ last.s.span.end.column = end.column
            /\ (\A i \in 1..Len(grammar.root[1].value) :
                    grammar.root[1].value[i] # WideChar) =>
                  last.s.span.end.index = end.index

====
